---- MODULE Spec2Model ----
(***************************************************************************)
(* Black-Scholes screening of an equity universe (src/sourcecode.py).      *)
(*                                                                         *)
(* Numbers.  The program computes in IEEE doubles; the model computes in   *)
(* decimal fixed point and keeps the three non-finite outcomes apart:      *)
(*   - a dimensionless quantity (log return, volatility, rate, d1, d2,     *)
(*     a probability) is an integer count of 10^-9;                        *)
(*   - money (close, spot, call price, capital) is an integer count of     *)
(*     10^-6 dollar;                                                       *)
(*   - vega, which is rounded to four decimals where money is rounded to   *)
(*     two, is an integer count of 10^-8 dollar;                           *)
(*   - a value the pricer produces is a record [k, v]: k = "fin" with the  *)
(*     fixed-point value v, k = "inf" with v = 1 or -1, or k = "nan".      *)
(***************************************************************************)
EXTENDS Integers, Sequences, FiniteSets, TLC

\* ------------------------------------------------------------------------
\* Fixed-point arithmetic
\* ------------------------------------------------------------------------

Scale == 10^9
Money == 10^6
VegaUnit == 10^8

Abs(x) == IF x < 0 THEN -x ELSE x

Sgn(x) == IF x < 0 THEN -1 ELSE IF x > 0 THEN 1 ELSE 0

Min(a, b) == IF a <= b THEN a ELSE b

Max(a, b) == IF a >= b THEN a ELSE b

\* a*b/10^9 rounded to nearest (half away from zero) for |a|, |b| < 2^31,
\* by long multiplication in base 1000, so that no intermediate product
\* leaves the machine integers.  The result must fit them.
Mul(a, b) ==
    LET x   == Abs(a)
        y   == Abs(b)
        x2  == x \div 1000000
        x1  == (x \div 1000) % 1000
        x0  == x % 1000
        y2  == y \div 1000000
        y1  == (y \div 1000) % 1000
        y0  == y % 1000
        m3  == x2 * y1 + x1 * y2
        m2  == x2 * y0 + x1 * y1 + x0 * y2
        t1  == (x1 * y0 + x0 * y1) * 1000 + x0 * y0
        low == (m2 % 1000) * 1000000 + (t1 % Scale)
        q   == x2 * y2 * 1000 + m3 + (m2 \div 1000) + (t1 \div Scale) + (low \div Scale)
    IN  Sgn(a) * Sgn(b) * (IF 2 * (low % Scale) >= Scale THEN q + 1 ELSE q)

\* The next n decimal digits of r/c appended to q, and the remainder left,
\* for 0 <= r < c < 2^31 / 5.
RECURSIVE LongDiv(_, _, _, _)
LongDiv(q, r, c, n) ==
    IF n = 0 THEN <<q, r>>
    ELSE LET r5 == 5 * r
             s  == 2 * (r5 % c)
         IN  LongDiv(10 * q + 2 * (r5 \div c) + (s \div c), s % c, c, n - 1)

\* a*10^9/b rounded to nearest (half away from zero): the quotient of two
\* fixed-point numbers, or of two integers, as a fixed-point number.
Div(a, b) ==
    LET c  == Abs(b)
        qr == LongDiv(Abs(a) \div c, Abs(a) % c, c, 9)
    IN  Sgn(a) * Sgn(b) * (IF 2 * qr[2] >= c THEN qr[1] + 1 ELSE qr[1])

\* The largest y in lo..hi-1 with y*y <= x (fixed point), lo*lo <= x < hi*hi.
RECURSIVE SqrtBetween(_, _, _)
SqrtBetween(x, lo, hi) ==
    IF hi - lo <= 1 THEN lo
    ELSE LET mid == lo + (hi - lo) \div 2
         IN  IF Mul(mid, mid) <= x THEN SqrtBetween(x, mid, hi)
             ELSE SqrtBetween(x, lo, mid)

\* sqrt of a fixed-point x, 0 <= x < 2.
Sqrt(x) == IF x <= 0 THEN 0 ELSE SqrtBetween(x, 0, 3 * (Scale \div 2))

\* x rounded to a multiple of q, ties to the even multiple (round(x, ndigits)).
RoundHalfEven(x, q) ==
    LET a  == Abs(x)
        lo == a \div q
        r  == a % q
        n  == IF 2 * r < q THEN lo
              ELSE IF 2 * r > q THEN lo + 1
              ELSE IF lo % 2 = 0 THEN lo ELSE lo + 1
    IN  Sgn(x) * n * q

\* Integer division that rounds toward zero whatever the sign of a.
Quot(a, n) == Sgn(a) * (Abs(a) \div n)

\* exp(x), |x| <= 1: the Taylor series, summed until a term vanishes.
\* t is the n-th term x^n/n!.
RECURSIVE ExpSum(_, _, _)
ExpSum(x, t, n) ==
    IF t = 0 THEN 0 ELSE t + ExpSum(x, Quot(Mul(t, x), n + 1), n + 1)

Exp(x) == ExpSum(x, Scale, 0)

\* ln(a/b) for integers a, b > 0 with a + b < 2^31 / 5:
\* 2*atanh(z) = 2*(z + z^3/3 + z^5/5 + ...), z = (a-b)/(a+b).
\* p is z^(2k+1).
RECURSIVE AtanhSum(_, _, _)
AtanhSum(zz, p, k) ==
    IF p = 0 THEN 0 ELSE Quot(p, 2 * k + 1) + AtanhSum(zz, Mul(p, zz), k + 1)

Ln(a, b) ==
    LET z == Div(a - b, a + b)
    IN  2 * AtanhSum(Mul(z, z), z, 0)

\* 1/sqrt(2*pi), the normalising constant of the standard normal density.
InvSqrt2Pi == 398942280

\* Standard normal density (scipy.stats.norm.pdf) at a finite x, |x| <= 1.
NormPdf(x) == Mul(InvSqrt2Pi, Exp(-(Mul(x, x) \div 2)))

\* Standard normal distribution function (scipy.stats.norm.cdf) at a finite
\* x, |x| <= 1:  1/2 + (1/sqrt(2 pi)) * sum_n (-1)^n x^(2n+1)/(2^n n! (2n+1)).
\* u is the n-th x^(2n+1)/(2^n n!) with its sign.
RECURSIVE CdfSum(_, _, _)
CdfSum(xx, u, n) ==
    IF u = 0 THEN 0
    ELSE Quot(u, 2 * n + 1) + CdfSum(xx, -Quot(Mul(u, xx), 2 * (n + 1)), n + 1)

NormCdf(x) == Scale \div 2 + Mul(InvSqrt2Pi, CdfSum(Mul(x, x), x, 0))

\* ------------------------------------------------------------------------
\* Doubles that may be non-finite
\* ------------------------------------------------------------------------

Fin(v) == [k |-> "fin", v |-> v]

NaN == [k |-> "nan", v |-> 0]

Inf(sign) == [k |-> "inf", v |-> sign]

IsFinite(f) == f.k = "fin"

\* numerator / denominator of two finite doubles as numpy.float64 divides:
\* x/0 is +inf or -inf, 0/0 is nan, and nothing is raised.
FDiv(num, den) ==
    IF den # 0 THEN Fin(Div(num, den))
    ELSE IF num = 0 THEN NaN ELSE Inf(Sgn(num))

\* f - x for a finite x.
FSub(f, x) == IF IsFinite(f) THEN Fin(f.v - x) ELSE f

\* norm.cdf and norm.pdf on a double.
FCdf(f) ==
    IF f.k = "nan" THEN NaN
    ELSE IF f.k = "inf" THEN Fin(IF f.v > 0 THEN Scale ELSE 0)
    ELSE Fin(NormCdf(f.v))

FPdf(f) ==
    IF f.k = "nan" THEN NaN
    ELSE IF f.k = "inf" THEN Fin(0)
    ELSE Fin(NormPdf(f.v))

\* round(f, ndigits): nan stays nan.
FRound(f, q) == IF IsFinite(f) THEN Fin(RoundHalfEven(f.v, q)) ELSE f

\* IEEE comparisons: every comparison with nan is false.
FGt(f, g) ==
    /\ f.k # "nan" /\ g.k # "nan"
    /\ \/ f.k = "fin" /\ g.k = "fin" /\ f.v > g.v
       \/ f.k = "inf" /\ f.v > 0 /\ ~(g.k = "inf" /\ g.v > 0)
       \/ g.k = "inf" /\ g.v < 0 /\ ~(f.k = "inf" /\ f.v < 0)

FEq(f, g) == f.k # "nan" /\ g.k # "nan" /\ f = g

FGe(f, g) == FGt(f, g) \/ FEq(f, g)

\* ------------------------------------------------------------------------
\* black_scholes_call
\* ------------------------------------------------------------------------

\* S, K: money, below 2^31 / 10.  T, r: fixed point.  sigma: a double (a
\* sample deviation is nan when there are fewer than two returns).  Every
\* operand is a numpy.float64 in the caller, so a zero divisor raises
\* nothing.  The call price is money; vega is a count of 10^-8 dollar:
\* S * (pdf * sqrt T) with S in 10^-7 dollar and the product in 10^-10.
black_scholes_call(S, K, T, r, sigma) ==
    IF ~IsFinite(sigma)
    THEN [call_price |-> NaN, delta |-> NaN, vega |-> NaN]
    ELSE LET sqrtT == Sqrt(T)
             num   == Ln(S, K) + Mul(r + Mul(sigma.v, sigma.v) \div 2, T)
             den   == Mul(sigma.v, sqrtT)
             d1    == FDiv(num, den)
             d2    == FSub(d1, den)
             N1    == FCdf(d1)
             N2    == FCdf(d2)
             disc  == Mul(K, Exp(-Mul(r, T)))
             pdf1  == FPdf(d1)
         IN  IF ~IsFinite(N1) \/ ~IsFinite(N2)
             THEN [call_price |-> NaN, delta |-> NaN, vega |-> NaN]
             ELSE [call_price |-> Fin(Mul(S, N1.v) - Mul(disc, N2.v)),
                   delta      |-> N1,
                   vega       |-> Fin(Mul(10 * S, 10 * Mul(pdf1.v, sqrtT)))]

\* ------------------------------------------------------------------------
\* fetch_risk_free_rate
\* ------------------------------------------------------------------------

\* The fallback rate 0.05.
DefaultRate == 5 * (Scale \div 100)

\* A reply of the rate provider: status 0 stands for no reply at all
\* (requests.get raises), form says what the body of a reply holds:
\* the latest observation's value in hundredths of a percent ("4.32" is 432),
\* the "." FRED prints for a day without a value, or no JSON at all.
FredReply(status, form, value) == [status |-> status, form |-> form, value |-> value]

\* What fetch_risk_free_rate does with a reply: the rate it returns, whether
\* it warns, and the exception that leaves it, if any.
fetch_risk_free_rate(reply) ==
    IF reply.status = 0
    THEN [raised |-> "ConnectionError", warned |-> FALSE, rate |-> 0]
    ELSE IF reply.status # 200
    THEN [raised |-> "none", warned |-> TRUE, rate |-> DefaultRate]
    ELSE IF reply.form = "invalid"
    THEN [raised |-> "JSONDecodeError", warned |-> FALSE, rate |-> 0]
    ELSE IF reply.form = "missing"
    THEN [raised |-> "ValueError", warned |-> FALSE, rate |-> 0]
    ELSE [raised |-> "none", warned |-> FALSE,
          rate |-> reply.value * (Scale \div 10000)]

\* ------------------------------------------------------------------------
\* fetch_price_data
\* ------------------------------------------------------------------------

\* A reply of the price provider: status 0 stands for no reply at all, form
\* is "series" (the body holds 'Time Series (Daily)'), "note" (JSON without
\* that key, as a rate-limit note) or "invalid" (no JSON); series is the
\* sequence of [date, adj_close] the body lists, in the body's order.
PriceReply(status, form, series) == [status |-> status, form |-> form, series |-> series]

None == [is_none |-> TRUE, adj_close |-> <<>>]

DataFrame(closes) == [is_none |-> FALSE, adj_close |-> closes]

\* df.sort_index(): the entries in increasing order of date (the dates of a
\* body are distinct: they are the keys of a JSON object).  sorted holds the
\* first k - 1 entries in order; the k-th goes after those dated before it.
RECURSIVE SortFrom(_, _, _)
SortFrom(series, k, sorted) ==
    IF k > Len(series) THEN sorted
    ELSE LET e == series[k]
             p == Cardinality({j \in DOMAIN sorted : sorted[j].date < e.date})
         IN  SortFrom(series, k + 1,
                      SubSeq(sorted, 1, p) \o <<e>> \o SubSeq(sorted, p + 1, Len(sorted)))

sort_index(series) == SortFrom(series, 1, <<>>)

\* df[['5. adjusted close']]: the column of closes.
adj_close(sorted) == [t \in 1..Len(sorted) |-> sorted[t].adj_close]

\* What fetch_price_data does with a reply: the frame it returns (or None)
\* and the exception that leaves it, if any.  An empty series has no
\* '5. adjusted close' column: KeyError, caught.
fetch_price_data(reply) ==
    IF reply.status = 0
    THEN [raised |-> "ConnectionError", df |-> None]
    ELSE IF reply.status # 200
    THEN [raised |-> "none", df |-> None]
    ELSE IF reply.form = "invalid"
    THEN [raised |-> "JSONDecodeError", df |-> None]
    ELSE IF reply.form = "note" \/ reply.series = <<>>
    THEN [raised |-> "none", df |-> None]
    ELSE [raised |-> "none", df |-> DataFrame(adj_close(sort_index(reply.series)))]

\* ------------------------------------------------------------------------
\* calculate_volatility
\* ------------------------------------------------------------------------

RECURSIVE SumSeq(_)
SumSeq(s) == IF s = <<>> THEN 0 ELSE Head(s) + SumSeq(Tail(s))

RECURSIVE MaxAbs(_)
MaxAbs(s) == IF s = <<>> THEN 0 ELSE Max(Abs(Head(s)), MaxAbs(Tail(s)))

\* df['log_return'] without its leading nan: ln(P_t / P_(t-1)), t = 2..n.
log_return(closes) ==
    [t \in 1..(Len(closes) - 1) |-> Ln(closes[t + 1], closes[t])]

\* Series.std(): the sample deviation (ddof = 1) of the returns, nan when
\* there are fewer than two.  The deviations are scaled by the largest
\* before they are squared, so that the squares keep nine digits.
std(returns) ==
    LET m    == Len(returns)
        mean == Quot(SumSeq(returns), m)
        dev  == [t \in 1..m |-> returns[t] - mean]
        big  == MaxAbs(dev)
        sq   == [t \in 1..m |-> LET u == Div(dev[t], big)
                                IN  Quot(Mul(u, u), m - 1)]
    IN  IF m < 2 THEN NaN
        ELSE IF big = 0 THEN Fin(0)
        ELSE Fin(Mul(big, Sqrt(SumSeq(sq))))

\* sigma = std * sqrt(252), with sqrt(252) = 16 * sqrt(252/256).
calculate_volatility(frame) ==
    LET s == std(log_return(frame.adj_close))
    IN  IF IsFinite(s) THEN Fin(16 * Mul(s.v, Sqrt(252 * (Scale \div 256)))) ELSE s

\* ------------------------------------------------------------------------
\* main: constants and inputs
\* ------------------------------------------------------------------------

\* T = 30 / 365.
T == Div(30, 365)

\* len(df) >= 30.
MinObs == 30

\* .head(25).
TopN == 25

\* The slider's least value.
SliderMin == 25

\* The slider's greatest value.
SliderMax == 150

\* number_input's min_value, 100.0 dollars.
LiquidityMin == 100 * Money

\* Sizes of the universes whose provider may answer anything: 0..MaxFree.
MaxFree == 2

\* Sizes of the scripted universes, TopN..TopN+MaxOver, and the slider
\* positions tried, SliderMin..SliderMin+MaxOver.
MaxOver == 2

Dollars(n) == n * Money

Cents(n) == n * (Money \div 100)

\* A body listing n daily closes, newest first as the provider prints them,
\* that alternate between two prices and end (latest date) on last.
AltSeries(n, last, other) ==
    [t \in 1..n |-> [date |-> n + 1 - t,
                     adj_close |-> IF t % 2 = 1 THEN last ELSE other]]

\* The same closes listed oldest first.
AltSeriesAscending(n, last, other) ==
    [t \in 1..n |-> [date |-> t,
                     adj_close |-> IF (n - t) % 2 = 0 THEN last ELSE other]]

\* A body whose closes swing one percent below last.
Swing(n, last) == PriceReply(200, "series", AltSeries(n, last, (last \div 100) * 99))

\* A body of n identical closes.
Flat(n, p) == PriceReply(200, "series", AltSeries(n, p, p))

\* What the price provider may answer for a symbol of a free universe.
FreeReplies ==
    { PriceReply(0, "invalid", <<>>),
      PriceReply(503, "invalid", <<>>),
      PriceReply(200, "invalid", <<>>),
      PriceReply(200, "note", <<>>),
      Swing(MinObs - 1, Dollars(90)),
      Flat(MinObs, Dollars(100)),
      Swing(MinObs, Cents(10020)),
      PriceReply(200, "series",
                 AltSeriesAscending(MinObs + 1, Cents(10030), (Cents(10030) \div 100) * 99)) }

\* The scripted universes: every symbol answers with a full series, so that
\* more than TopN rows are ranked.  Level v is a swing series ending on
\* 58 + 2v dollars; a higher level has a higher call price.
Level(v) == Swing(MinObs, Dollars(58 + 2 * v))

Scripts == {"ascending", "shuffled", "twins"}

\* The reply of symbol k (1..size) under a script.
\*   ascending: the call price rises with k;
\*   shuffled:  the levels 7k mod 29, all different;
\*   twins:     as ascending, but the first three symbols reply alike.
ScriptReply(script, size, k) ==
    IF script = "ascending" THEN Level(k)
    ELSE IF script = "shuffled" THEN Level((7 * k) % 29)
    ELSE Level(IF k <= 3 THEN 1 ELSE k)

Providers ==
    {[script |-> "free", size |-> n] : n \in 0..MaxFree}
    \cup {[script |-> sc, size |-> TopN + k] : sc \in Scripts, k \in 0..MaxOver}

\* The replies the price provider may give for a symbol.
Replies(prov, symbol) ==
    IF prov.script = "free" THEN FreeReplies
    ELSE {ScriptReply(prov.script, prov.size, symbol)}

\* What the rate provider may answer.
FredReplies ==
    { FredReply(0, "invalid", 0),
      FredReply(503, "invalid", 0),
      FredReply(200, "invalid", 0),
      FredReply(200, "missing", 0),
      FredReply(200, "value", 0),
      FredReply(200, "value", 432) }

\* ------------------------------------------------------------------------
\* main: state
\* ------------------------------------------------------------------------

VARIABLES
    pc,              \* where main is: "rate", "fetch", "process", "report",
                     \* "rank", "done", or "crashed" (an exception left main)
    provider,        \* the price provider's behaviour for this run
    fred,            \* the rate provider's reply for this run
    tickers,         \* load_sp500_tickers()'s symbols
    selected_count,  \* the slider
    user_liquidity,  \* the number input (money)
    risk_free_rate,  \* fixed point
    warned,          \* st.warning was shown
    i,               \* the loop index (0-based, as enumerate counts)
    df,              \* the frame of the symbol in hand, or None
    results,         \* the list of row dicts
    quotes,          \* per row of results, what the pricer returned for it
                     \* and the volatility it was given (locals of the loop
                     \* body, kept to state the properties of the unrounded values)
    progress,        \* the values given to progress.progress, as <<num, den>>
    top_25,          \* the frame shown, as a sequence of rows
    shown,           \* st.dataframe(top_25) was called
    raised,          \* the exception that left main, and where it arose
    fetched,         \* per symbol handled, what fetch_price_data returned:
                     \* [ticker, available, length] (history, read by no step)
    arg_call_price,  \* for line 113 taken alone: the call price it is given,
    arg_liquidity,   \* the capital it is given,
    ret_contracts    \* and the count it yields (-1 before it has run)

vars == <<pc, provider, fred, tickers, selected_count, user_liquidity,
          risk_free_rate, warned, i, df, results, quotes, progress, top_25,
          shown, raised, fetched, arg_call_price, arg_liquidity, ret_contracts>>

\* The variables of line 113 taken alone; main's steps leave them be.
line113 == <<arg_call_price, arg_liquidity, ret_contracts>>

NoException == [what |-> "none", where |-> "none"]

\* tickers[:selected_count]
Slice == SubSeq(tickers, 1, Min(selected_count, Len(tickers)))

Init ==
    /\ pc = "rate"
    /\ provider \in Providers
    /\ fred \in FredReplies
    /\ tickers = [k \in 1..provider.size |-> k]
    /\ selected_count \in SliderMin..Min(SliderMax, SliderMin + MaxOver)
    /\ user_liquidity \in {LiquidityMin, 10 * LiquidityMin}
    /\ risk_free_rate = 0
    /\ warned = FALSE
    /\ i = 0
    /\ df = None
    /\ results = <<>>
    /\ quotes = <<>>
    /\ progress = <<>>
    /\ top_25 = <<>>
    /\ shown = FALSE
    /\ raised = NoException
    /\ fetched = <<>>
    /\ arg_call_price = NaN
    /\ arg_liquidity = 0
    /\ ret_contracts = -1

\* ------------------------------------------------------------------------
\* main: steps
\* ------------------------------------------------------------------------

\* Where the loop goes from index n: the next symbol, or past the loop.
LoopAt(n) == IF n < Len(Slice) THEN "fetch" ELSE "rank"

\* risk_free_rate = fetch_risk_free_rate()
FetchRate ==
    /\ pc = "rate"
    /\ LET got == fetch_risk_free_rate(fred)
       IN  IF got.raised # "none"
           THEN /\ pc' = "crashed"
                /\ raised' = [what |-> got.raised, where |-> "fetch_risk_free_rate"]
                /\ UNCHANGED <<risk_free_rate, warned>>
           ELSE /\ pc' = LoopAt(0)
                /\ risk_free_rate' = got.rate
                /\ warned' = got.warned
                /\ UNCHANGED raised
    /\ UNCHANGED <<provider, fred, tickers, selected_count, user_liquidity, i, df,
                   results, quotes, progress, top_25, shown, fetched, line113>>

\* df = fetch_price_data(ticker); time.sleep(0.8)
FetchPrice ==
    /\ pc = "fetch"
    /\ \E reply \in Replies(provider, Slice[i + 1]) :
         LET got == fetch_price_data(reply)
         IN  IF got.raised # "none"
             THEN /\ pc' = "crashed"
                  /\ raised' = [what |-> got.raised, where |-> "fetch_price_data"]
                  /\ UNCHANGED <<df, fetched>>
             ELSE /\ pc' = "process"
                  /\ df' = got.df
                  /\ fetched' = Append(fetched, [ticker    |-> Slice[i + 1],
                                                 available |-> ~got.df.is_none,
                                                 length    |-> Len(got.df.adj_close)])
                  /\ UNCHANGED raised
    /\ UNCHANGED <<provider, fred, tickers, selected_count, user_liquidity,
                   risk_free_rate, warned, i, results, quotes, progress, top_25,
                   shown, line113>>

\* The guard with its threshold one lower, to try the skip rule against.
EvaluatedFrom29(frame) == ~frame.is_none /\ Len(frame.adj_close) >= MinObs - 1

\* df is not None and len(df) >= 30
Evaluated(frame) == ~frame.is_none /\ Len(frame.adj_close) >= MinObs

\* The count without the test of the price's sign, to try the rule for
\* prices at or below zero against.
affordable_contracts_unguarded(call_price, liquidity) ==
    IF IsFinite(call_price) /\ call_price.v # 0
    THEN liquidity \div (call_price.v * 100)
    ELSE 0

\* int(user_liquidity // (call_price * 100)) if call_price > 0 else 0
affordable_contracts(call_price, liquidity) ==
    IF FGt(call_price, Fin(0))
    THEN IF IsFinite(call_price) THEN liquidity \div (call_price.v * 100) ELSE 0
    ELSE 0

\* The local values of one pass through the body of the if.
Quote(frame, rate) ==
    LET S     == frame.adj_close[Len(frame.adj_close)]
        sigma == calculate_volatility(frame)
        bs    == black_scholes_call(S, S, T, rate, sigma)
    IN  [S |-> S, sigma |-> sigma, call_price |-> bs.call_price,
         delta |-> bs.delta, vega |-> bs.vega]

\* Quote is a function of the frame and the rate alone.  It is tabulated
\* once, over every frame a reply of the providers can yield and every rate
\* a reply of the rate provider can yield, and the loop body reads the table.
KnownReplies ==
    FreeReplies
    \cup UNION {{ScriptReply(p.script, p.size, k) : k \in 1..p.size} :
                   p \in {q \in Providers : q.script # "free"}}

KnownFrames ==
    {f \in {fetch_price_data(reply).df : reply \in KnownReplies} : f.adj_close # <<>>}

KnownRates == {fetch_risk_free_rate(reply).rate : reply \in FredReplies}

QuoteTable ==
    {[frame |-> f, rate |-> r, quote |-> Quote(f, r)] : f \in KnownFrames, r \in KnownRates}

QuoteOf(frame, rate) ==
    (CHOOSE e \in QuoteTable : e.frame = frame /\ e.rate = rate).quote

\* The dict appended for a symbol.
Row(ticker, q, liquidity) ==
    [Ticker     |-> ticker,
     Price      |-> RoundHalfEven(q.S, Money \div 100),
     Volatility |-> FRound(q.sigma, Scale \div 10000),
     CallPrice  |-> FRound(q.call_price, Money \div 100),
     Delta      |-> FRound(q.delta, Scale \div 10000),
     Vega       |-> FRound(q.vega, VegaUnit \div 10000),
     Contracts  |-> affordable_contracts(q.call_price, liquidity)]

\* The row put at the front instead, to try the order of the rows against.
Prepended(rows, row) == <<row>> \o rows

\* results.append({...})
Appended(rows, row) == Append(rows, row)

\* The if of the loop body.
Process ==
    /\ pc = "process"
    /\ IF Evaluated(df)
       THEN LET q == QuoteOf(df, risk_free_rate)
            IN  /\ results' = Appended(results, Row(Slice[i + 1], q, user_liquidity))
                /\ quotes' = Append(quotes, q)
       ELSE UNCHANGED <<results, quotes>>
    /\ pc' = "report"
    /\ UNCHANGED <<provider, fred, tickers, selected_count, user_liquidity,
                   risk_free_rate, warned, i, df, progress, top_25, shown, raised,
                   fetched, line113>>

\* The fraction taken before the symbol is counted, to try the reported
\* values against.
FractionBefore(n, count) == <<n, count>>

\* The value given to progress.progress for loop index n.
Fraction(n, count) == <<n + 1, count>>

\* progress.progress((i + 1) / selected_count), and on to the next symbol.
Report ==
    /\ pc = "report"
    /\ progress' = Append(progress, Fraction(i, selected_count))
    /\ i' = i + 1
    /\ pc' = LoopAt(i + 1)
    /\ UNCHANGED <<provider, fred, tickers, selected_count, user_liquidity,
                   risk_free_rate, warned, df, results, quotes, top_25, shown, raised,
                   fetched, line113>>

\* sort_values(by='Call Price', ascending=False) names no kind, so the
\* sort is numpy's quicksort, which keeps no order among equal keys: the
\* outcome may be any arrangement of the rows with a number for a call
\* price that is non-increasing in it, followed by the rows whose call
\* price is nan, in the order they were appended (na_position='last').
RECURSIVE Descending(_, _)
Descending(rows, idx) ==
    IF idx = {} THEN {<<>>}
    ELSE LET top == {a \in idx : \A b \in idx : FGe(rows[a].CallPrice, rows[b].CallPrice)}
         IN  UNION {{<<a>> \o rest : rest \in Descending(rows, idx \ {a})} : a \in top}

RECURSIVE Ascending(_)
Ascending(idx) ==
    IF idx = {} THEN <<>>
    ELSE LET a == CHOOSE x \in idx : \A y \in idx : x <= y
         IN  <<a>> \o Ascending(idx \ {a})

sort_values(rows) ==
    LET nans == {a \in DOMAIN rows : rows[a].CallPrice.k = "nan"}
    IN  {[n \in DOMAIN rows |-> rows[(order \o Ascending(nans))[n]]] :
            order \in Descending(rows, DOMAIN rows \ nans)}

\* .head(25)
head(frame, n) == SubSeq(frame, 1, Min(n, Len(frame)))

\* st.success; if results: sort, head and show.
Rank ==
    /\ pc = "rank"
    /\ IF results # <<>>
       THEN /\ top_25' \in {head(sorted, TopN) : sorted \in sort_values(results)}
            /\ shown' = TRUE
       ELSE UNCHANGED <<top_25, shown>>
    /\ pc' = "done"
    /\ UNCHANGED <<provider, fred, tickers, selected_count, user_liquidity,
                   risk_free_rate, warned, i, df, results, quotes, progress, raised,
                   fetched, line113>>

Next == FetchRate \/ FetchPrice \/ Process \/ Report \/ Rank

Spec == Init /\ [][Next]_vars

\* ------------------------------------------------------------------------
\* Line 113 taken alone: the contract count for any call price and capital
\* ------------------------------------------------------------------------

\* The call prices tried are nan, the infinities and -0.50, -0.25, 0, 0.25,
\* ... dollars, MaxPriceStep quarter-dollar steps up from -0.50.
MaxPriceStep == 12

\* The capitals tried are 0, 125, 250, ... dollars, MaxCapitalStep steps.
MaxCapitalStep == 8

CallPrices ==
    {NaN, Inf(1), Inf(-1)} \cup {Fin((n - 2) * (Money \div 4)) : n \in 0..MaxPriceStep}

Capitals == {n * 125 * Money : n \in 0..MaxCapitalStep}

InitLine113 ==
    /\ pc = "line113"
    /\ provider = [script |-> "free", size |-> 0]
    /\ fred = FredReply(503, "invalid", 0)
    /\ tickers = <<>>
    /\ selected_count = SliderMin
    /\ user_liquidity = LiquidityMin
    /\ risk_free_rate = 0
    /\ warned = FALSE
    /\ i = 0
    /\ df = None
    /\ results = <<>>
    /\ quotes = <<>>
    /\ progress = <<>>
    /\ top_25 = <<>>
    /\ shown = FALSE
    /\ raised = NoException
    /\ fetched = <<>>
    /\ arg_call_price \in CallPrices
    /\ arg_liquidity \in Capitals
    /\ ret_contracts = -1

\* affordable_contracts = int(...) if call_price > 0 else 0
Afford ==
    /\ pc = "line113"
    /\ ret_contracts' = affordable_contracts(arg_call_price, arg_liquidity)
    /\ pc' = "line113 done"
    /\ UNCHANGED <<provider, fred, tickers, selected_count, user_liquidity,
                   risk_free_rate, warned, i, df, results, quotes, progress, top_25,
                   shown, raised, fetched, arg_call_price, arg_liquidity>>

SpecLine113 == InitLine113 /\ [][Afford]_vars

\* ------------------------------------------------------------------------
\* Properties
\* ------------------------------------------------------------------------

\* A fetched frame that passes the guard of line 108.
WasEvaluated(h) == h.available /\ h.length >= MinObs

\* The symbols handled so far whose rows are due: while the loop body of
\* the symbol in hand has not run, that symbol is not yet among them.
Processed == SubSeq(fetched, 1, IF pc = "process" THEN Len(fetched) - 1 ELSE Len(fetched))

\* The place of a row in results (the rows differ in their Ticker).
PosOf(row) == CHOOSE k \in DOMAIN results : results[k] = row

\* The rows of results that top_25 leaves out.
LeftOut == {k \in DOMAIN results : \A a \in DOMAIN top_25 : top_25[a] # results[k]}

\* C1: no exception that arises while a symbol is fetched leaves main, and
\* a run that completes has handled exactly min(count, |universe|) symbols.
C1_NoSymbolAborts ==
    /\ raised.where # "fetch_price_data"
    /\ pc = "done" =>
          /\ i = Min(selected_count, Len(tickers))
          /\ Len(fetched) = i

\* C2: at every point of the pass, a symbol whose fetch gave no frame, or a
\* frame of fewer than 30 observations, has no row in results.
C2_NoRowWithoutHistory ==
    \A h \in DOMAIN fetched :
        (~fetched[h].available \/ fetched[h].length < 30) =>
            \A k \in DOMAIN results : results[k].Ticker # fetched[h].ticker

\* C2, its case: a pass has ended in which one symbol had no frame and
\* another had a frame of 29 observations, and there is no row.
C2_Witness ==
    /\ pc = "done"
    /\ \E h \in DOMAIN fetched : ~fetched[h].available
    /\ \E h \in DOMAIN fetched : fetched[h].available /\ fetched[h].length = 29
    /\ results = <<>>

\* C3: a row priced with volatility zero carries the intrinsic value (call
\* price max(S - K, 0) = 0 at the money, delta 0 or 1, vega 0), and no row
\* carries a value that is not finite.
C3_DegenerateGuard ==
    \A k \in DOMAIN results :
        /\ IsFinite(results[k].Volatility)
        /\ IsFinite(results[k].CallPrice)
        /\ IsFinite(results[k].Delta)
        /\ IsFinite(results[k].Vega)
        /\ quotes[k].sigma = Fin(0) =>
              /\ quotes[k].call_price = Fin(0)
              /\ quotes[k].delta \in {Fin(0), Fin(Scale)}
              /\ quotes[k].vega = Fin(0)

\* C4: the frame shown has min(25, n) rows, each a different row of
\* results, in non-increasing order of call price, and no row left out has
\* a call price greater than a row shown.
C4_Leaderboard ==
    pc = "done" =>
        /\ Len(top_25) = Min(25, Len(results))
        /\ \A a \in DOMAIN top_25 : \E k \in DOMAIN results : results[k] = top_25[a]
        /\ \A a, b \in DOMAIN top_25 : a # b => top_25[a] # top_25[b]
        /\ \A a, b \in DOMAIN top_25 :
              a < b => FGe(top_25[a].CallPrice, top_25[b].CallPrice)
        /\ \A k \in LeftOut : \A a \in DOMAIN top_25 :
              FGe(top_25[a].CallPrice, results[k].CallPrice)

\* C5: rows of equal call price are shown in the order in which they were
\* appended, and of such rows the earlier appended is the one kept by the
\* cut at 25.
C5_StableRanking ==
    pc = "done" =>
        /\ \A a, b \in DOMAIN top_25 :
              (a < b /\ FEq(top_25[a].CallPrice, top_25[b].CallPrice))
                  => PosOf(top_25[a]) < PosOf(top_25[b])
        /\ \A k \in LeftOut : \A a \in DOMAIN top_25 :
              FEq(top_25[a].CallPrice, results[k].CallPrice) => PosOf(top_25[a]) < k

\* C6: of two rows whose call prices differ before rounding, the one with
\* the higher price before rounding is shown first, and is the one kept by
\* the cut at 25.
C6_RankedOnFullPrecision ==
    pc = "done" =>
        /\ \A a, b \in DOMAIN top_25 :
              FGt(quotes[PosOf(top_25[a])].call_price,
                  quotes[PosOf(top_25[b])].call_price) => a < b
        /\ \A k \in LeftOut : \A a \in DOMAIN top_25 :
              ~FGt(quotes[k].call_price, quotes[PosOf(top_25[a])].call_price)

\* C7: once line 113 has run on a call price p and a capital c >= 0, the
\* count n is floor(c / (100 p)) when p > 0, which is to say
\* n * 100p <= c < (n + 1) * 100p for a finite p and 0 for an infinite one;
\* it is 0 when p <= 0; and it is never negative.
C7_AffordableContracts ==
    pc = "line113 done" =>
        LET p == arg_call_price
            c == arg_liquidity
            n == ret_contracts
        IN  /\ n >= 0
            /\ (IsFinite(p) /\ p.v > 0) =>
                   /\ n * (100 * p.v) <= c
                   /\ c < (n + 1) * (100 * p.v)
            /\ p = Inf(1) => n = 0
            /\ FGe(Fin(0), p) => n = 0

\* C7, its case: line 113 has run on a positive price that does not divide
\* the capital, and the count is positive.
C7_Witness ==
    /\ pc = "line113 done"
    /\ IsFinite(arg_call_price)
    /\ arg_call_price.v > 0
    /\ arg_liquidity % (100 * arg_call_price.v) # 0
    /\ ret_contracts > 0

\* A reply of the rate provider from which no rate can be had: none at
\* all, a status other than 200, or a body without a usable value.
RateUnavailable(reply) == reply.status # 200 \/ reply.form # "value"

\* C8: when the rate provider is unavailable, the call of
\* fetch_risk_free_rate is followed by the pass, not by an exception, and
\* the rate in use is 0.05.
C8_RateFallback ==
    (RateUnavailable(fred) /\ pc # "rate") =>
        /\ raised.where # "fetch_risk_free_rate"
        /\ risk_free_rate = 5 * (Scale \div 100)

\* C9: one value is reported for each symbol handled, before the next
\* symbol is fetched and whether or not the symbol gave a row; the n-th
\* value is n / count; the values lie in [0, 1] and increase strictly.
C9_Progress ==
    /\ Len(progress) = i
    /\ pc \in {"fetch", "rank", "done"} => Len(progress) = Len(fetched)
    /\ pc \in {"process", "report"} => Len(progress) + 1 = Len(fetched)
    /\ pc = "done" => Len(progress) = Min(selected_count, Len(tickers))
    /\ \A n \in DOMAIN progress :
          /\ progress[n] = <<n, selected_count>>
          /\ 0 <= progress[n][1]
          /\ progress[n][1] <= progress[n][2]
    /\ \A n, m \in DOMAIN progress :
          n < m => progress[n][1] * progress[m][2] < progress[m][1] * progress[n][2]

\* C9, its case: a pass has ended in which one symbol was skipped and
\* another gave a row, and a value was reported for each.
C9_Witness ==
    /\ pc = "done"
    /\ Len(progress) = 2
    /\ \E h \in DOMAIN fetched : ~WasEvaluated(fetched[h])
    /\ Len(results) = 1

\* The tickers of the frames that pass the guard, in the order fetched.
RECURSIVE EvaluatedTickers(_)
EvaluatedTickers(hist) ==
    IF hist = <<>> THEN <<>>
    ELSE (IF WasEvaluated(Head(hist)) THEN <<Head(hist).ticker>> ELSE <<>>)
         \o EvaluatedTickers(Tail(hist))

\* C10: at every point of the pass results holds one row for each symbol
\* processed whose frame was there with at least 30 observations, in the
\* order of the universe; and every step leaves results as it is or puts
\* one row at its end, the rows before it untouched.
C10_AppendOnly ==
    /\ []([k \in DOMAIN results |-> results[k].Ticker] = EvaluatedTickers(Processed))
    /\ [][\/ results' = results
          \/ /\ Len(results') = Len(results) + 1
             /\ SubSeq(results', 1, Len(results)) = results]_vars

\* C10, its case: the pass is under way, two rows have been appended and
\* a further symbol is about to be fetched.
C10_Witness ==
    /\ pc = "fetch"
    /\ Len(results) = 2

====
